---- MODULE Spec2Model ----
(***************************************************************************)
(* Model of the HTTP request execution engine of mandy                     *)
(* (src-tauri/src/helpers/rest.rs): rest_request / execute_curl_request    *)
(* with its helpers build_url_with_params, format_curl_error,              *)
(* parse_set_cookie, detect_renderers and uuid_simple.                     *)
(*                                                                         *)
(* Strings are sequences of symbols.  A symbol is either a delimiter the   *)
(* code splits or trims on (":", ";", "=", " ", ...) or a fragment that    *)
(* holds no delimiter ("Set-Cookie", "text/html", "<html", ...).           *)
(***************************************************************************)
EXTENDS Integers, Sequences, FiniteSets, TLC

VARIABLES
    pc,       \* position of the one execute_curl_request call in flight
    req,      \* the ApiRequest being executed
    easy,     \* the curl Easy handle: the options set on it and its transfers
    wire,     \* what the transport delivered: error or raw headers, body, timings
    result,   \* the Result<ApiResponse, String> handed back to the caller
    now,      \* the system clock (secs, subsec_nanos) read by uuid_simple
    bpc,      \* per concurrent multipart build: "ready" or "built"
    boundary, \* per concurrent multipart build: the boundary token it made
    prior     \* the handle built by an earlier call with an equal request, if any

vars == <<pc, req, easy, wire, result, now, bpc, boundary, prior>>

(***************************************************************************)
(* Option<T>                                                               *)
(***************************************************************************)
None == [some |-> FALSE]

Some(x) == [some |-> TRUE, v |-> x]

unwrap_or(o, d) == IF o.some THEN o.v ELSE d

(***************************************************************************)
(* str helpers used by the code                                            *)
(***************************************************************************)
starts_with(s, p) == Len(s) >= Len(p) /\ SubSeq(s, 1, Len(p)) = p

contains(s, sym) == \E i \in 1..Len(s) : s[i] = sym

\* index of the first occurrence of sym in s, 0 when there is none
find(s, sym) ==
    IF contains(s, sym)
    THEN CHOOSE i \in 1..Len(s) : s[i] = sym /\ \A j \in 1..(i - 1) : s[j] # sym
    ELSE 0

RECURSIVE trim_start(_)
trim_start(s) ==
    IF s # <<>> /\ Head(s) = " " THEN trim_start(Tail(s)) ELSE s

RECURSIVE trim_end(_)
trim_end(s) ==
    IF s # <<>> /\ s[Len(s)] = " " THEN trim_end(SubSeq(s, 1, Len(s) - 1)) ELSE s

trim(s) == trim_end(trim_start(s))

\* the symbols that have an upper-case letter, with their lower-case form
Lower(sym) ==
    CASE sym = "Set-Cookie" -> "set-cookie"
      [] sym = "SET-COOKIE" -> "set-cookie"
      [] sym = "Content-Type" -> "content-type"
      [] sym = "CONTENT-TYPE" -> "content-type"
      [] sym = "X-A" -> "x-a"
      [] sym = "HttpOnly" -> "httponly"
      [] sym = "Secure" -> "secure"
      [] sym = "Domain" -> "domain"
      [] sym = "Path" -> "path"
      [] sym = "Expires" -> "expires"
      [] sym = "Text/HTML" -> "text/html"
      [] sym = "Application/JSON" -> "application/json"
      [] OTHER -> sym

to_lowercase(s) == [i \in 1..Len(s) |-> Lower(s[i])]

\* str::split(sep): the segments between the separators, at least one
RECURSIVE split(_, _)
split(s, sep) ==
    IF find(s, sep) = 0
    THEN <<s>>
    ELSE <<SubSeq(s, 1, find(s, sep) - 1)>>
             \o split(SubSeq(s, find(s, sep) + 1, Len(s)), sep)

\* str::splitn(2, sep): one or two pieces, cut at the first separator
splitn2(s, sep) ==
    IF find(s, sep) = 0
    THEN <<s>>
    ELSE <<SubSeq(s, 1, find(s, sep) - 1), SubSeq(s, find(s, sep) + 1, Len(s))>>

\* [String]::join(sep)
RECURSIVE join(_, _)
join(parts, sep) ==
    IF parts = <<>> THEN <<>>
    ELSE IF Len(parts) = 1 THEN parts[1]
    ELSE parts[1] \o sep \o join(Tail(parts), sep)

(***************************************************************************)
(* URLs and Url::parse (url crate), as far as the code depends on it       *)
(***************************************************************************)
URL_HTTP == <<"h", "t", "t", "p", ":", "/", "/", "h", "/">>

URL_FILE == <<"f", "i", "l", "e", ":", "/", "/", "/", "f">>

URL_NO_SCHEME == <<"n", "o", "t", " ", "a", " ", "u", "r", "l">>

URL_EMPTY == <<>>

URL_NO_HOST == <<"h", "t", "t", "p", ":", "/", "/">>

Urls == {URL_HTTP, URL_FILE, URL_NO_SCHEME, URL_EMPTY, URL_NO_HOST}

Alpha == {"a", "e", "f", "h", "i", "l", "n", "o", "p", "r", "t", "u"}

SchemeChar == Alpha \cup {"+", "-", "."}

\* the scheme of u (the symbols before the first ":"), <<>> when u has none
url_scheme(u) ==
    LET i == find(u, ":") IN
    IF i > 1 /\ u[1] \in Alpha /\ \A j \in 2..(i - 1) : u[j] \in SchemeChar
    THEN SubSeq(u, 1, i - 1)
    ELSE <<>>

RECURSIVE skip_slashes(_)
skip_slashes(s) ==
    IF s # <<>> /\ Head(s) = "/" THEN skip_slashes(Tail(s)) ELSE s

\* Url::parse: "ok", or the ParseError it displays.  A URL needs a scheme, and
\* an http URL a host
url_parse_error(u) ==
    LET scheme == url_scheme(u)
        host == splitn2(skip_slashes(SubSeq(u, Len(scheme) + 2, Len(u))), "/")[1]
    IN  IF scheme = <<>> THEN "relative URL without a base"
        ELSE IF scheme = <<"h", "t", "t", "p">> /\ host = <<>> THEN "empty host"
        ELSE "ok"

\* HashMap iteration: every order of the entries is possible
iter(m) ==
    {o \in [1..Cardinality(DOMAIN m) -> DOMAIN m] :
        \A i, j \in DOMAIN o : i # j => o[i] # o[j]}

\* the (key, value) pairs of map m visited in key order o
pairs_in(m, o) == [i \in DOMAIN o |-> <<o[i], m[o[i]]>>]

EmptyMap == [k \in {} |-> <<>>]

\* build_url_with_params without the `?` on Url::parse: a URL that does not
\* parse is handed on as it is
build_url_unchecked(base_url, params, api_key_param) ==
    [ok |-> TRUE,
     url |-> [base |-> base_url,
              query |-> params \o (IF api_key_param.some
                                   THEN <<api_key_param.v>> ELSE <<>>)]]

\* rest.rs build_url_with_params; params is the map's entries as iterated
build_url_with_params(base_url, params, api_key_param) ==
    IF url_parse_error(base_url) # "ok"
    THEN [ok |-> FALSE, err |-> <<"Invalid URL: ", url_parse_error(base_url)>>]
    ELSE [ok |-> TRUE,
          url |-> [base |-> base_url,
                   query |-> params \o (IF api_key_param.some
                                        THEN <<api_key_param.v>> ELSE <<>>)]]

(***************************************************************************)
(* curl error codes and the Error Classifier                               *)
(***************************************************************************)
CURLE_COULDNT_RESOLVE_HOST == 6

CURLE_COULDNT_CONNECT == 7

CURLE_OPERATION_TIMEDOUT == 28

CURLE_SSL_CONNECT_ERROR == 35

CURLE_TOO_MANY_REDIRECTS == 47

CURLE_GOT_NOTHING == 52

CURLE_PEER_FAILED_VERIFICATION == 60

CurlCodes ==
    {CURLE_COULDNT_RESOLVE_HOST, CURLE_COULDNT_CONNECT, CURLE_OPERATION_TIMEDOUT,
     CURLE_SSL_CONNECT_ERROR, CURLE_TOO_MANY_REDIRECTS, CURLE_GOT_NOTHING,
     CURLE_PEER_FAILED_VERIFICATION}

\* curl::Error's Display: the transport's own diagnostic string
curl_to_string(e) ==
    CASE e = CURLE_COULDNT_RESOLVE_HOST -> <<"[6] Couldn't resolve host name">>
      [] e = CURLE_COULDNT_CONNECT -> <<"[7] Couldn't connect to server">>
      [] e = CURLE_OPERATION_TIMEDOUT -> <<"[28] Timeout was reached">>
      [] e = CURLE_SSL_CONNECT_ERROR -> <<"[35] SSL connect error">>
      [] e = CURLE_TOO_MANY_REDIRECTS -> <<"[47] Number of redirects hit maximum amount">>
      [] e = CURLE_GOT_NOTHING -> <<"[52] Server returned nothing (no headers, no data)">>
      [] e = CURLE_PEER_FAILED_VERIFICATION -> <<"[60] SSL peer certificate was not OK">>

\* rest.rs format_curl_error
format_curl_error(e) ==
    (IF e = CURLE_COULDNT_RESOLVE_HOST THEN <<"Could not resolve host. ">> ELSE <<>>)
    \o (IF e = CURLE_COULDNT_CONNECT THEN <<"Could not connect. ">> ELSE <<>>)
    \o (IF e = CURLE_OPERATION_TIMEDOUT THEN <<"Operation timed out. ">> ELSE <<>>)
    \o (IF e = CURLE_SSL_CONNECT_ERROR THEN <<"SSL connect error. ">> ELSE <<>>)
    \o (IF e = CURLE_PEER_FAILED_VERIFICATION
        THEN <<"SSL certificate verification failed. ">> ELSE <<>>)
    \o curl_to_string(e)

(***************************************************************************)
(* Response Analyzer: cookies and headers                                  *)
(***************************************************************************)
\* the loop over the attributes in parse_set_cookie (rest.rs 110-123)
RECURSIVE cookie_attrs(_, _)
cookie_attrs(cookie, parts) ==
    IF parts = <<>> THEN cookie
    ELSE
        LET attr == splitn2(Head(parts), "=")
            attr_name == to_lowercase(trim(attr[1]))
            attr_value == IF Len(attr) = 2 THEN Some(trim(attr[2])) ELSE None
            next ==
                CASE attr_name = <<"domain">> -> [cookie EXCEPT !.domain = attr_value]
                  [] attr_name = <<"path">> -> [cookie EXCEPT !.path = attr_value]
                  [] attr_name = <<"expires">> -> [cookie EXCEPT !.expires = attr_value]
                  [] attr_name = <<"httponly">> -> [cookie EXCEPT !.http_only = Some(TRUE)]
                  [] attr_name = <<"secure">> -> [cookie EXCEPT !.secure = Some(TRUE)]
                  [] OTHER -> cookie
        IN  cookie_attrs(next, Tail(parts))

\* parse_set_cookie looking for '=' in the whole header value instead of in its
\* first ';'-segment
parse_set_cookie_whole_value(header_value) ==
    LET parts == split(header_value, ";")
        name_value == splitn2(header_value, "=")
    IN  IF Len(name_value) # 2 THEN None
        ELSE Some(cookie_attrs(
                 [name |-> trim(name_value[1]),
                  value |-> trim(split(name_value[2], ";")[1]),
                  domain |-> None, path |-> None, expires |-> None,
                  http_only |-> None, secure |-> None],
                 Tail(parts)))

\* rest.rs parse_set_cookie
parse_set_cookie(header_value) ==
    LET parts == split(header_value, ";")
        name_value == splitn2(parts[1], "=")
    IN  IF Len(name_value) # 2 THEN None
        ELSE Some(cookie_attrs(
                 [name |-> trim(name_value[1]), value |-> trim(name_value[2]),
                  domain |-> None, path |-> None, expires |-> None,
                  http_only |-> None, secure |-> None],
                 Tail(parts)))

\* HashMap::insert
insert(m, k, v) == [x \in DOMAIN m \cup {k} |-> IF x = k THEN v ELSE m[x]]

\* HashMap::get
get(m, k) == IF k \in DOMAIN m THEN Some(m[k]) ELSE None

\* merge_header as a plain insert: a repeated name overwrites
merge_header_overwrite(headers, name, value) == insert(headers, name, value)

\* a repeated header name: push_str(", "), push_str(&value); else insert
merge_header(headers, name, value) ==
    IF name \in DOMAIN headers
    THEN [headers EXCEPT ![name] = @ \o <<", ">> \o value]
    ELSE insert(headers, name, value)

\* one turn of the loop over the raw header lines (rest.rs 450-474)
header_line(acc, line) ==
    IF starts_with(line, <<"HTTP/">>)
    THEN [acc EXCEPT !.http_version = splitn2(line, " ")[1]]
    ELSE IF find(line, ":") = 0 THEN acc
    ELSE
        LET name == trim(splitn2(line, ":")[1])
            value == trim(splitn2(line, ":")[2])
            cookie == IF to_lowercase(name) = <<"set-cookie">>
                      THEN parse_set_cookie(value) ELSE None
        IN  [acc EXCEPT
                !.cookies = IF cookie.some THEN Append(@, cookie.v) ELSE @,
                !.headers = merge_header(@, name, value)]

RECURSIVE header_lines(_, _)
header_lines(acc, lines) ==
    IF lines = <<>> THEN acc
    ELSE header_lines(header_line(acc, Head(lines)), Tail(lines))

\* rest.rs 445-474: the headers map, the cookie list and the HTTP version
parse_response_headers(lines) ==
    header_lines([headers |-> EmptyMap, cookies |-> <<>>,
                  http_version |-> <<"HTTP/", "1.1">>], lines)

\* rest.rs 479-482
lookup_content_type(response_headers) ==
    IF get(response_headers, <<"content-type">>).some
    THEN get(response_headers, <<"content-type">>)
    ELSE get(response_headers, <<"Content-Type">>)

\* rest.rs 488-494
protocol_used(http_version) ==
    IF contains(http_version, "3") THEN <<"HTTP/3">>
    ELSE IF contains(http_version, "2") THEN <<"HTTP/2">>
    ELSE http_version

\* rest.rs status_text, some rows of its table
status_text(status) ==
    CASE status = 200 -> "OK"
      [] status = 301 -> "Moved Permanently"
      [] status = 404 -> "Not Found"
      [] status = 500 -> "Internal Server Error"
      [] OTHER -> "Status " \o ToString(status)

(***************************************************************************)
(* Response Analyzer: timing                                               *)
(***************************************************************************)
\* the difference of two timers kept as it is, without .max(0.0)
no_clamp(x) == x

\* f64::max(0.0)
max0(x) == IF x > 0 THEN x ELSE 0

\* rest.rs 420-428; t holds the six curl timers
timing_info(t) ==
    [total_ms |-> t.total,
     dns_lookup_ms |-> t.namelookup,
     tcp_handshake_ms |-> max0(t.connect - t.namelookup),
     tls_handshake_ms |-> max0(t.appconnect - t.connect),
     transfer_start_ms |-> max0(t.pretransfer - t.appconnect),
     ttfb_ms |-> max0(t.starttransfer - t.pretransfer),
     content_download_ms |-> max0(t.total - t.starttransfer)]

(***************************************************************************)
(* Response Analyzer: renderer detection                                   *)
(***************************************************************************)
\* serde_json grammar over body symbols: whitespace " ", the scalars "1" and
\* "true", arrays, and objects whose members are a key symbol "\"k\":" and a value.
JsonScalar == {"1", "true"}

JsonKey == "\"k\":"

RECURSIVE skip_ws(_, _)
skip_ws(b, i) == IF i <= Len(b) /\ b[i] = " " THEN skip_ws(b, i + 1) ELSE i

\* json_value(b, i): the index after the value that starts at i, 0 when none does
RECURSIVE json_value(_, _)
RECURSIVE json_elems(_, _)
RECURSIVE json_members(_, _)
json_value(b, i) ==
    IF i > Len(b) THEN 0
    ELSE IF b[i] \in JsonScalar THEN i + 1
    ELSE IF b[i] = "["
    THEN LET j == skip_ws(b, i + 1) IN
         IF j <= Len(b) /\ b[j] = "]" THEN j + 1 ELSE json_elems(b, j)
    ELSE IF b[i] = "{"
    THEN LET j == skip_ws(b, i + 1) IN
         IF j <= Len(b) /\ b[j] = "}" THEN j + 1 ELSE json_members(b, j)
    ELSE 0

json_elems(b, i) ==
    LET e == json_value(b, i)
        j == skip_ws(b, e)
    IN  IF e = 0 \/ j > Len(b) THEN 0
        ELSE IF b[j] = "]" THEN j + 1
        ELSE IF b[j] = "," THEN json_elems(b, skip_ws(b, j + 1))
        ELSE 0

json_members(b, i) ==
    IF i > Len(b) \/ b[i] # JsonKey THEN 0
    ELSE LET e == json_value(b, skip_ws(b, i + 1))
             j == skip_ws(b, e)
         IN  IF e = 0 \/ j > Len(b) THEN 0
             ELSE IF b[j] = "}" THEN j + 1
             ELSE IF b[j] = "," THEN json_members(b, skip_ws(b, j + 1))
             ELSE 0

\* serde_json::from_slice::<Value>(body).is_ok()
json_is_ok(body) ==
    LET e == json_value(body, skip_ws(body, 1)) IN
    e # 0 /\ skip_ws(body, e) = Len(body) + 1

\* detect_renderers with the body-sniffing JSON test as an `if` of its own
\* instead of the `else if` of the content-type test
detect_renderers_json_twice(content_type, body) ==
    LET ct == to_lowercase(unwrap_or(content_type, <<>>))
        by_type ==
            IF (contains(ct, "application/json") \/ contains(ct, "+json"))
                /\ json_is_ok(body)
            THEN <<"Json">> ELSE <<>>
        by_body ==
            IF (starts_with(body, <<"{">>) \/ starts_with(body, <<"[">>))
                /\ json_is_ok(body)
            THEN <<"Json">> ELSE <<>>
        markup ==
            IF contains(ct, "text/html") \/ contains(ct, "application/xhtml")
            THEN <<"Html", "HtmlPreview">>
            ELSE <<>>
    IN  <<"Raw">> \o by_type \o by_body \o markup

\* detect_renderers with the markup rules as further `else if` arms of the
\* JSON test, so that they are skipped whenever the JSON condition holds
detect_renderers_one_chain(content_type, body) ==
    LET ct == to_lowercase(unwrap_or(content_type, <<>>))
        is_html_content_type ==
            contains(ct, "text/html") \/ contains(ct, "application/xhtml")
        is_xml_content_type ==
            contains(ct, "application/xml") \/ contains(ct, "text/xml")
                \/ contains(ct, "+xml")
        chain ==
            IF contains(ct, "application/json") \/ contains(ct, "+json")
                \/ starts_with(body, <<"{">>) \/ starts_with(body, <<"[">>)
            THEN IF json_is_ok(body) THEN <<"Json">> ELSE <<>>
            ELSE IF is_html_content_type THEN <<"Html", "HtmlPreview">>
            ELSE IF is_xml_content_type THEN <<"Xml">>
            ELSE IF starts_with(trim_start(body), <<"<?xml">>) THEN <<"Xml">>
            ELSE IF starts_with(trim_start(body), <<"<!DOCTYPE html">>)
                    \/ starts_with(trim_start(body), <<"<html">>)
            THEN <<"Html", "HtmlPreview">>
            ELSE <<>>
        image ==
            IF contains(ct, "image/png") \/ contains(ct, "image/jpeg")
                \/ contains(ct, "image/gif") \/ contains(ct, "image/webp")
                \/ contains(ct, "image/svg") \/ contains(ct, "image/bmp")
                \/ contains(ct, "image/ico")
            THEN <<"Image">> ELSE <<>>
        pdf == IF contains(ct, "application/pdf") THEN <<"Pdf">> ELSE <<>>
        audio == IF contains(ct, "audio/") THEN <<"Audio">> ELSE <<>>
        video == IF contains(ct, "video/") THEN <<"Video">> ELSE <<>>
    IN  <<"Raw">> \o chain \o image \o pdf \o audio \o video

\* rest.rs detect_renderers
detect_renderers(content_type, body) ==
    LET ct == to_lowercase(unwrap_or(content_type, <<>>))
        json ==
            IF contains(ct, "application/json") \/ contains(ct, "+json")
            THEN IF json_is_ok(body) THEN <<"Json">> ELSE <<>>
            ELSE IF starts_with(body, <<"{">>) \/ starts_with(body, <<"[">>)
            THEN IF json_is_ok(body) THEN <<"Json">> ELSE <<>>
            ELSE <<>>
        is_html_content_type ==
            contains(ct, "text/html") \/ contains(ct, "application/xhtml")
        is_xml_content_type ==
            contains(ct, "application/xml") \/ contains(ct, "text/xml")
                \/ contains(ct, "+xml")
        markup ==
            IF is_html_content_type THEN <<"Html", "HtmlPreview">>
            ELSE IF is_xml_content_type THEN <<"Xml">>
            ELSE IF starts_with(trim_start(body), <<"<?xml">>) THEN <<"Xml">>
            ELSE IF starts_with(trim_start(body), <<"<!DOCTYPE html">>)
                    \/ starts_with(trim_start(body), <<"<html">>)
            THEN <<"Html", "HtmlPreview">>
            ELSE <<>>
        image ==
            IF contains(ct, "image/png") \/ contains(ct, "image/jpeg")
                \/ contains(ct, "image/gif") \/ contains(ct, "image/webp")
                \/ contains(ct, "image/svg") \/ contains(ct, "image/bmp")
                \/ contains(ct, "image/ico")
            THEN <<"Image">> ELSE <<>>
        pdf == IF contains(ct, "application/pdf") THEN <<"Pdf">> ELSE <<>>
        audio == IF contains(ct, "audio/") THEN <<"Audio">> ELSE <<>>
        video == IF contains(ct, "video/") THEN <<"Video">> ELSE <<>>
    IN  <<"Raw">> \o json \o markup \o image \o pdf \o audio \o video

(***************************************************************************)
(* Multipart boundary                                                      *)
(***************************************************************************)
HexDigit(d) ==
    CASE d < 10 -> ToString(d)
      [] d = 10 -> "a" [] d = 11 -> "b" [] d = 12 -> "c"
      [] d = 13 -> "d" [] d = 14 -> "e" [] d = 15 -> "f"

\* format!("{:x}", n): the hexadecimal digits of n, no padding
RECURSIVE hex(_)
hex(n) == IF n < 16 THEN <<HexDigit(n)>> ELSE hex(n \div 16) \o <<HexDigit(n % 16)>>

\* rest.rs uuid_simple, t the value SystemTime::now() returned
uuid_simple(t) == hex(t.secs) \o hex(t.nanos)

\* rest.rs 313
make_boundary(t) == <<"----WebKitFormBoundary">> \o uuid_simple(t)

(***************************************************************************)
(* Request Builder                                                         *)
(***************************************************************************)
\* url::form_urlencoded::byte_serialize, symbol by symbol
UrlEncodeSym(sym) ==
    CASE sym = " " -> "+"
      [] sym = "&" -> "%26"
      [] sym = "=" -> "%3D"
      [] OTHER -> sym

\* rest.rs urlencoding
urlencoding(s) == [i \in 1..Len(s) |-> UrlEncodeSym(s[i])]

\* format!("{}: {}", key, val)
header_entry(key, val) == key \o <<": ">> \o val

\* rest.rs 196-203
api_key_query(auth) ==
    IF auth.kind = "ApiKey" /\ auth.add_to = "Query"
    THEN Some(<<auth.key, auth.value>>) ELSE None

\* auth_headers matching ApiKey { .. } without its add_to: a Query key is
\* appended as a header too
auth_headers_any_api_key(auth) ==
    CASE auth.kind = "Bearer" -> <<<<"Authorization: Bearer ">> \o auth.token>>
      [] auth.kind = "ApiKey" -> <<header_entry(auth.key, auth.value)>>
      [] OTHER -> <<>>

\* rest.rs 258-278: the header the auth variant appends to header_list
auth_headers(auth) ==
    CASE auth.kind = "Bearer" -> <<<<"Authorization: Bearer ">> \o auth.token>>
      [] auth.kind = "ApiKey" /\ auth.add_to = "Header" ->
            <<header_entry(auth.key, auth.value)>>
      [] OTHER -> <<>>

\* rest.rs 259-262: Basic credentials go to the handle, not to header_list
auth_userpwd(auth) ==
    IF auth.kind = "Basic" THEN Some(<<auth.username, auth.password>>) ELSE None

\* rest.rs build_cookie_header
build_cookie_header(cookies) ==
    join([i \in 1..Len(cookies) |-> cookies[i].name \o <<"=">> \o cookies[i].value],
         <<"; ">>)

\* rest.rs 316-351: the parts of a multipart body
RECURSIVE multipart_parts(_, _)
multipart_parts(fields, b) ==
    IF fields = <<>> THEN <<>>
    ELSE LET f == Head(fields) IN
         <<"--">> \o b \o <<"\r\n">>
         \o (IF f.value.kind = "Text"
             THEN <<"Content-Disposition: form-data; name=\"">> \o f.name
                      \o <<"\"\r\n\r\n">> \o f.value.text \o <<"\r\n">>
             ELSE <<"Content-Disposition: form-data; name=\"">> \o f.name
                      \o <<"\"; filename=\"">> \o f.value.filename \o <<"\"\r\n">>
                      \o <<"Content-Type: ">>
                      \o unwrap_or(f.value.content_type, <<"application/octet-stream">>)
                      \o <<"\r\n\r\n">> \o f.value.data \o <<"\r\n">>)
         \o multipart_parts(Tail(fields), b)

\* rest.rs 287-370: the Content-Type header (if any) and post_data of a body.
\* fo is the order the fields map of a FormUrlEncoded body is iterated in and
\* t the clock value uuid_simple reads for a Multipart body
encode_body(body, fo, t) ==
    CASE body.kind = "None" -> [headers |-> <<>>, data |-> None]
      [] body.kind = "Raw" ->
            [headers |-> IF body.content_type.some
                         THEN <<<<"Content-Type: ">> \o body.content_type.v>>
                         ELSE <<>>,
             data |-> Some(body.content)]
      [] body.kind = "FormUrlEncoded" ->
            [headers |-> <<<<"Content-Type: application/x-www-form-urlencoded">>>>,
             data |-> Some(join([i \in DOMAIN fo |->
                                    urlencoding(fo[i]) \o <<"=">>
                                        \o urlencoding(body.fields[fo[i]])],
                                <<"&">>))]
      [] body.kind = "Multipart" ->
            [headers |-> <<<<"Content-Type: multipart/form-data; boundary=">>
                               \o make_boundary(t)>>,
             data |-> Some(multipart_parts(body.fields, make_boundary(t))
                             \o <<"--">> \o make_boundary(t) \o <<"--\r\n">>)]
      [] body.kind = "Binary" ->
            [headers |-> <<<<"Content-Type: application/octet-stream">>>>,
             data |-> Some(body.data)]

\* Easy::new(): libcurl's defaults
NewEasy ==
    [url |-> None, method |-> "GET", nobody |-> FALSE, timeout |-> None,
     follow_location |-> FALSE, max_redirections |-> None,
     ssl_verify_peer |-> TRUE, ssl_verify_host |-> TRUE,
     proxy |-> None, userpwd |-> None,
     http_headers |-> <<>>, post_data |-> None, performs |-> 0]

\* ssl_verify with verification off unless asked for: unwrap_or(false)
ssl_verify_default_off(r) == unwrap_or(r.verify_ssl, FALSE)

\* rest.rs 238: the value given to both ssl_verify_peer and ssl_verify_host
ssl_verify(r) == unwrap_or(r.verify_ssl, TRUE)

\* rest.rs 250-285 and 287-370: header_list as handed to easy.http_headers;
\* ho is the order the headers map is iterated in
header_list(r, ho, fo, t) ==
    [i \in DOMAIN ho |-> header_entry(ho[i], r.headers[ho[i]])]
    \o auth_headers(r.auth)
    \o (IF r.cookies # <<>>
        THEN <<<<"Cookie: ">> \o build_cookie_header(r.cookies)>> ELSE <<>>)
    \o encode_body(r.body, fo, t).headers

\* rest.rs 206-378: the options set on the handle once the URL is built
configure(r, url, ho, fo, t) ==
    [NewEasy EXCEPT
        !.url = Some(url),
        !.method = r.method,
        !.nobody = (r.method = "HEAD"),
        !.timeout = r.timeout_ms,
        !.follow_location = unwrap_or(r.follow_redirects, TRUE),
        !.max_redirections =
            IF unwrap_or(r.follow_redirects, TRUE)
            THEN Some(unwrap_or(r.max_redirects, 10)) ELSE None,
        !.ssl_verify_peer = ssl_verify(r),
        !.ssl_verify_host = ssl_verify(r),
        !.proxy = r.proxy,
        !.userpwd = auth_userpwd(r.auth),
        !.http_headers = header_list(r, ho, fo, t),
        !.post_data = encode_body(r.body, fo, t).data]

(***************************************************************************)
(* Response Analyzer: the ApiResponse of a completed transfer              *)
(***************************************************************************)
\* rest.rs 413-514
analyze_response(w) ==
    LET parsed == parse_response_headers(w.headers)
        content_type == lookup_content_type(parsed.headers)
    IN  [status |-> w.response_code,
         status_text |-> status_text(w.response_code),
         headers |-> parsed.headers,
         cookies |-> parsed.cookies,
         body |-> w.body,
         timing |-> timing_info(w.times),
         redirects |-> <<>>,
         http_version |-> parsed.http_version,
         available_renderers |-> detect_renderers(content_type, w.body),
         detected_content_type |-> content_type,
         protocol_used |-> protocol_used(parsed.http_version),
         error |-> None]

(***************************************************************************)
(* Inputs: requests and what the transport can deliver                     *)
(***************************************************************************)
DefaultRequest ==
    [method |-> "GET", url |-> URL_HTTP, headers |-> EmptyMap,
     body |-> [kind |-> "None"], auth |-> [kind |-> "None"],
     query_params |-> EmptyMap, cookies |-> <<>>,
     timeout_ms |-> None, follow_redirects |-> None, max_redirects |-> None,
     verify_ssl |-> None, proxy |-> None]

Auths ==
    {[kind |-> "None"],
     [kind |-> "Bearer", token |-> <<"tok">>],
     [kind |-> "ApiKey", key |-> <<"k">>, value |-> <<"v">>, add_to |-> "Query"]}

Bodies ==
    {[kind |-> "None"],
     [kind |-> "Raw", content |-> <<"x">>, content_type |-> Some(<<"text/plain">>)],
     [kind |-> "Multipart",
      fields |-> <<[name |-> <<"f">>, value |-> [kind |-> "Text", text |-> <<"x">>]]>>]}

Requests ==
    {[DefaultRequest EXCEPT !.url = u, !.verify_ssl = v, !.timeout_ms = t,
                            !.follow_redirects = f, !.auth = a, !.body = b] :
        u \in Urls, v \in {None, Some(TRUE), Some(FALSE)},
        t \in {None, Some(0), Some(5000)}, f \in {None, Some(FALSE)},
        a \in Auths, b \in Bodies}

NoTimes ==
    [namelookup |-> 0, connect |-> 0, appconnect |-> 0, pretransfer |-> 0,
     starttransfer |-> 0, total |-> 0]

\* a TLS transfer (timers in order) and a plain one (appconnect stays 0)
SampleTimes ==
    {[namelookup |-> 1, connect |-> 2, appconnect |-> 3, pretransfer |-> 3,
      starttransfer |-> 4, total |-> 5],
     [namelookup |-> 1, connect |-> 2, appconnect |-> 0, pretransfer |-> 2,
      starttransfer |-> 3, total |-> 3]}

SampleHeaders ==
    {<<>>,
     <<<<"HTTP/", "1.1", " ", "200">>,
       <<"Content-Type", ":", " ", "application/json">>>>,
     <<<<"HTTP/", "2", " ", "200">>,
       <<"content-type", ":", " ", "text/html">>,
       <<"Set-Cookie", ":", " ", "a", "=", "b", ";", " ", "HttpOnly">>>>}

SampleBodies == {<<"{", "}">>, <<"<html", "x">>}

\* the response code of a completed transfer: an HTTP status, and 0 when the
\* protocol has none (file://)
ResponseCodes(e) ==
    IF url_scheme(e.url.v.base) = <<"h", "t", "t", "p">> THEN {200, 404} ELSE {0}

TransferFailed(c) ==
    [error |-> Some(c), response_code |-> 0, headers |-> <<>>, body |-> <<>>,
     times |-> NoTimes]

TransferDone(code, h, b, t) ==
    [error |-> None, response_code |-> code, headers |-> h, body |-> b, times |-> t]

\* what transfer.perform() can do with the configured handle e
TransportOutcomes(e) ==
    {TransferFailed(c) : c \in CurlCodes}
    \cup {TransferDone(code, h, b, t) :
            code \in ResponseCodes(e), h \in SampleHeaders, b \in SampleBodies,
            t \in SampleTimes}

NoWire == TransferDone(0, <<>>, <<>>, NoTimes)

NoResult == [kind |-> "none"]

Ok(response) == [kind |-> "Ok", response |-> response]

Err(msg) == [kind |-> "Err", msg |-> msg]

Epoch == [secs |-> 0, nanos |-> 0]

(***************************************************************************)
(* rest_request / execute_curl_request as a state machine                  *)
(***************************************************************************)
NumBuilds == 3

Builds == 1..NumBuilds

Init ==
    /\ pc = "idle"
    /\ req = DefaultRequest
    /\ easy = NewEasy
    /\ wire = NoWire
    /\ result = NoResult
    /\ now = Epoch
    /\ bpc = [w \in Builds |-> "ready"]
    /\ boundary = [w \in Builds |-> <<>>]
    /\ prior = None

\* rest.rs 554-556: the command is invoked with request r; Easy::new() (194)
Invoke(r) ==
    /\ pc = "idle"
    /\ pc' = "prepare"
    /\ req' = r
    /\ easy' = NewEasy
    /\ UNCHANGED <<wire, result, now, bpc, boundary, prior>>

\* rest.rs 196-378: build the URL, then configure the handle
Prepare ==
    /\ pc = "prepare"
    /\ \E qo \in iter(req.query_params), ho \in iter(req.headers),
          fo \in iter(IF req.body.kind = "FormUrlEncoded"
                      THEN req.body.fields ELSE EmptyMap) :
        LET built == build_url_with_params(req.url, pairs_in(req.query_params, qo),
                                           api_key_query(req.auth))
        IN  IF built.ok
            THEN /\ easy' = configure(req, built.url, ho, fo, now)
                 /\ pc' = "perform"
                 /\ UNCHANGED result
            ELSE /\ result' = Err(built.err)
                 /\ pc' = "done"
                 /\ UNCHANGED easy
    /\ UNCHANGED <<req, wire, now, bpc, boundary, prior>>

\* rest.rs 380-411: transfer.perform(); a transport error returns Err
Perform ==
    /\ pc = "perform"
    /\ \E o \in TransportOutcomes(easy) :
        /\ wire' = o
        /\ easy' = [easy EXCEPT !.performs = @ + 1]
        /\ IF o.error.some
           THEN /\ result' = Err(format_curl_error(o.error.v))
                /\ pc' = "done"
           ELSE /\ pc' = "analyze"
                /\ UNCHANGED result
    /\ UNCHANGED <<req, now, bpc, boundary, prior>>

\* rest.rs 413-515: analyze the transfer and return Ok(ApiResponse)
Analyze ==
    /\ pc = "analyze"
    /\ result' = Ok(analyze_response(wire))
    /\ pc' = "done"
    /\ UNCHANGED <<req, easy, wire, now, bpc, boundary, prior>>

Next ==
    \/ \E r \in Requests : Invoke(r)
    \/ Prepare
    \/ Perform
    \/ Analyze

Spec == Init /\ [][Next]_vars

(***************************************************************************)
(* The Response Analyzer on wider transport input: the call has performed  *)
(* its transfer (rest.rs 410) and analyzes what the transport delivered    *)
(***************************************************************************)
SeqsUpTo(S, n) == UNION {[1..k -> S] : k \in 0..n}

\* the state of a default GET after transfer.perform() delivered w
Performed(w) ==
    /\ pc = "analyze"
    /\ req = DefaultRequest
    /\ easy = [configure(DefaultRequest, [base |-> URL_HTTP, query |-> <<>>],
                         <<>>, <<>>, Epoch) EXCEPT !.performs = 1]
    /\ wire = w
    /\ result = NoResult
    /\ now = Epoch
    /\ bpc = [b \in Builds |-> "ready"]
    /\ boundary = [b \in Builds |-> <<>>]
    /\ prior = None

NextAnalyze == Analyze

\* ---- timing: every value of the six curl timers up to MaxT
MaxT == 3

Timers ==
    [namelookup : 0..MaxT, connect : 0..MaxT, appconnect : 0..MaxT,
     pretransfer : 0..MaxT, starttransfer : 0..MaxT, total : 0..MaxT]

InitTiming == \E t \in Timers : Performed(TransferDone(200, <<>>, <<>>, t))

SpecTiming == InitTiming /\ [][NextAnalyze]_vars

\* ---- renderer detection: content types and every body up to MaxBodyLen
MaxBodyLen == 3

BodySyms ==
    {"{", "}", "[", "]", "1", " ", JsonKey, "<?xml", "<html", "<!DOCTYPE html"}

WideBodies ==
    SeqsUpTo(BodySyms, MaxBodyLen)
    \cup {<<"{", JsonKey, "true", "}">>, <<"[", "1", ",", "1", "]">>,
          <<"<html", "x">>, <<"x">>}

ContentTypes ==
    {<<"application/json">>, <<"Application/JSON">>,
     <<"application/json", ";", " ", "charset=utf-8">>,
     <<"application/ld", "+json">>,
     <<"text/html">>, <<"Text/HTML">>, <<"text/html", ";", " ", "charset=utf-8">>,
     <<"application/xhtml", "+xml">>, <<"application/xml">>, <<"text/xml">>,
     <<"image/svg", "+xml">>, <<"image/png">>, <<"application/pdf">>,
     <<"audio/", "mpeg">>, <<"video/", "mp4">>, <<"text/plain">>}

ContentTypeHeaders ==
    {<<>>} \cup {<<<<"Content-Type", ":", " ">> \o ct>> : ct \in ContentTypes}

InitRenderers ==
    \E h \in ContentTypeHeaders, b \in WideBodies :
        Performed(TransferDone(200, h, b, NoTimes))

SpecRenderers == InitRenderers /\ [][NextAnalyze]_vars

\* ---- headers and cookies: every block of up to MaxLines of these lines
MaxLines == 3

HeaderLines ==
    {<<"HTTP/", "1.1", " ", "200", " ", "OK">>,
     <<"HTTP/", "2", " ", "301">>,
     <<>>,
     <<"garbage">>,
     <<"Set-Cookie", ":", " ", "session", "=", "abc", ";", " ", "Path", "=", "/",
       ";", " ", "HttpOnly">>,
     <<"set-cookie", ":", " ", "theme", "=", "dark", ";", " ", "Domain", "=",
       "example.com">>,
     <<"SET-COOKIE", ":", "novalue">>,
     <<"Set-Cookie", ":", " ", "flag", ";", " ", "a", "=", "b">>,
     <<" ", "Set-Cookie", " ", ":", "=", "v", "=", "w", ";", "Secure", ";", "Domain">>,
     <<"X-A", ":", " ", "1">>,
     <<"X-A", ":", " ", " ", "2", " ">>,
     <<"x-a", ":", "3">>,
     <<"X-A", ":">>,
     <<"X-A", ":", "a", ":", "b">>,
     <<"Content-Type", ":", " ", "text/html">>,
     <<"content-type", ":", " ", "application/json">>,
     <<"CONTENT-TYPE", ":", " ", "text/xml">>}

\* every value of a single Set-Cookie line up to MaxCookieLen symbols
MaxCookieLen == 5

CookieSyms == {"a", "=", ";", " ", "HttpOnly", "Domain"}

CookieBlocks ==
    {<<<<"Set-Cookie", ":">> \o v>> : v \in SeqsUpTo(CookieSyms, MaxCookieLen)}

InitHeaders ==
    \E h \in SeqsUpTo(HeaderLines, MaxLines) \cup CookieBlocks :
        Performed(TransferDone(200, h, <<"x">>, NoTimes))

SpecHeaders == InitHeaders /\ [][NextAnalyze]_vars

(***************************************************************************)
(* Concurrent multipart builds: each rest_request runs on its own blocking *)
(* thread (rest.rs 556) and reads the clock once (rest.rs 313, 546)        *)
(***************************************************************************)
MaxSecs == 1

MaxNanos == 3

Clock == [secs : 0..MaxSecs, nanos : 0..MaxNanos]

Later(a, b) == b.secs > a.secs \/ (b.secs = a.secs /\ b.nanos > a.nanos)

\* time passes
Tick ==
    /\ \E t \in Clock : Later(now, t) /\ now' = t
    /\ UNCHANGED <<pc, req, easy, wire, result, bpc, boundary, prior>>

\* rest.rs 313: build b makes its boundary from the clock
Build(b) ==
    /\ bpc[b] = "ready"
    /\ bpc' = [bpc EXCEPT ![b] = "built"]
    /\ boundary' = [boundary EXCEPT ![b] = make_boundary(now)]
    /\ UNCHANGED <<pc, req, easy, wire, result, now, prior>>

NextBoundary ==
    \/ Tick
    \/ \E b \in Builds : Build(b)

SpecBoundary == Init /\ [][NextBoundary]_vars

(***************************************************************************)
(* The Request Builder on wider requests: maps with up to two entries,     *)
(* every auth variant, and a second call with an equal request             *)
(***************************************************************************)
AllAuths ==
    Auths \cup
    {[kind |-> "Basic", username |-> <<"u">>, password |-> <<"p">>],
     [kind |-> "ApiKey", key |-> <<"X-Key">>, value |-> <<"v">>, add_to |-> "Header"]}

HeaderMaps ==
    {EmptyMap,
     <<"X-A">> :> <<"1">>,
     (<<"X-A">> :> <<"1">>) @@ (<<"X-B">> :> <<"2">>)}

ParamMaps ==
    {EmptyMap,
     <<"q">> :> <<"1">>,
     (<<"q">> :> <<"1">>) @@ (<<"r">> :> <<"a", " ", "b">>)}

BuildBodies ==
    {[kind |-> "None"],
     [kind |-> "Raw", content |-> <<"x">>, content_type |-> None],
     [kind |-> "FormUrlEncoded",
      fields |-> (<<"a">> :> <<"1", " ", "2">>) @@ (<<"b">> :> <<"x">>)],
     [kind |-> "Binary", data |-> <<"x">>]}

CookieLists == {<<>>, <<[name |-> <<"sid">>, value |-> <<"1">>]>>}

BuildRequests ==
    {[DefaultRequest EXCEPT !.url = u, !.headers = h, !.query_params = q,
                            !.auth = a, !.body = b, !.cookies = c] :
        u \in {URL_HTTP, URL_NO_SCHEME}, h \in HeaderMaps, q \in ParamMaps,
        a \in AllAuths, b \in BuildBodies, c \in CookieLists}

\* rest.rs 554-556: a second call with an equal request starts while the first
\* is about to transfer; its maps are HashMaps of their own
Again ==
    /\ pc = "perform"
    /\ prior = None
    /\ prior' = Some(easy)
    /\ easy' = NewEasy
    /\ pc' = "prepare"
    /\ UNCHANGED <<req, wire, result, now, bpc, boundary>>

NextBuild ==
    \/ \E r \in BuildRequests : Invoke(r)
    \/ Prepare
    \/ Again

SpecBuild == Init /\ [][NextBuild]_vars

(***************************************************************************)
(* Properties of execute (rest_request), checked under Spec                *)
(***************************************************************************)
MalformedUrls == {URL_NO_SCHEME, URL_EMPTY, URL_NO_HOST}

\* C1: execute returns a distinct error result only when the base URL fails to
\* parse: for a request whose URL parses, whatever the transport does, the call
\* ends with a response (Ok), never with an error result.
C1_ErrOnlyForInvalidUrl ==
    (pc = "done" /\ req.url \notin MalformedUrls) => result.kind = "Ok"

\* C2: a request whose base URL does not parse ends with the "Invalid URL" error
\* and without any transport activity: the handle never gets a URL and never
\* performs a transfer.
C2_InvalidUrlBeforeTransport ==
    (pc \notin {"idle", "prepare"} /\ req.url \in MalformedUrls) =>
        /\ pc = "done"
        /\ result.kind = "Err"
        /\ result.msg[1] = "Invalid URL: "
        /\ easy.url = None
        /\ easy.performs = 0
        /\ wire = NoWire

C2_Witness ==
    /\ pc = "done"
    /\ req.url = URL_NO_SCHEME
    /\ result = Err(<<"Invalid URL: ", "relative URL without a base">>)

\* C3: in every response execute returns, status is 0 exactly when error is set.
C3_StatusZeroIffError ==
    result.kind = "Ok" =>
        ((result.response.status = 0) <=> result.response.error.some)

\* the failure categories, among the eight the classifier is to name, that a
\* curl error of code c reports (curl::Error::is_couldnt_resolve_host, ...,
\* is_too_many_redirects)
C4_Reported(c) ==
    (IF c = CURLE_COULDNT_RESOLVE_HOST THEN {"host-resolution"} ELSE {})
    \cup (IF c = CURLE_COULDNT_CONNECT THEN {"connect"} ELSE {})
    \cup (IF c = CURLE_OPERATION_TIMEDOUT THEN {"timeout"} ELSE {})
    \cup (IF c = CURLE_SSL_CONNECT_ERROR THEN {"tls-connect"} ELSE {})
    \cup (IF c = CURLE_PEER_FAILED_VERIFICATION THEN {"certificate"} ELSE {})
    \cup (IF c = CURLE_TOO_MANY_REDIRECTS THEN {"too-many-redirects"} ELSE {})

\* C4: for every transport failure the composed message holds one prefix for
\* every failure category the transport reports, followed by the transport's
\* own diagnostic string; no reported category is left without its prefix.
C4_EveryCategoryPrefixed ==
    (pc = "done" /\ wire.error.some) =>
        /\ result.kind = "Err"
        /\ Len(result.msg) = Cardinality(C4_Reported(wire.error.v)) + 1
        /\ <<result.msg[Len(result.msg)]>> = curl_to_string(wire.error.v)

\* C10: TLS verification is off only by explicit opt-in: the peer and the host
\* check are set alike on every handle, are both on when verify_ssl is absent
\* or true, and are both off exactly when verify_ssl is explicitly false.
C10_VerifyOffOnlyOnOptIn ==
    /\ easy.ssl_verify_peer = easy.ssl_verify_host
    /\ ~easy.ssl_verify_peer => req.verify_ssl = Some(FALSE)
    /\ easy.url.some => (easy.ssl_verify_peer <=> req.verify_ssl # Some(FALSE))

C10_Witness ==
    /\ pc = "done"
    /\ easy.performs = 1
    /\ req.verify_ssl = Some(FALSE)
    /\ ~easy.ssl_verify_peer
    /\ ~easy.ssl_verify_host

\* types.rs 162: the timeout of `impl Default for ApiRequest`
DEFAULT_TIMEOUT_MS == 30000

\* C11: the timeout default applies only when the field is absent: a request
\* without timeout_ms runs with a 30000 ms timeout, and a request with
\* timeout_ms (also an explicit 0) runs with exactly the given value.
C11_TimeoutDefaultWhenAbsent ==
    easy.url.some => easy.timeout = Some(unwrap_or(req.timeout_ms, DEFAULT_TIMEOUT_MS))

(***************************************************************************)
(* Properties of the Response Analyzer                                     *)
(***************************************************************************)
\* a header line: not a status line, and with a ':' to split on
IsHeaderLine(l) == ~starts_with(l, <<"HTTP/">>) /\ contains(l, ":")

LineName(l) == trim(SubSeq(l, 1, find(l, ":") - 1))

LineValue(l) == trim(SubSeq(l, find(l, ":") + 1, Len(l)))

FirstSegment(v) == IF contains(v, ";") THEN SubSeq(v, 1, find(v, ";") - 1) ELSE v

\* the attribute segments of a Set-Cookie value: those after the first ';'
Attributes(v) ==
    IF contains(v, ";") THEN split(SubSeq(v, find(v, ";") + 1, Len(v)), ";") ELSE <<>>

AttrName(a) ==
    to_lowercase(trim(IF contains(a, "=") THEN SubSeq(a, 1, find(a, "=") - 1) ELSE a))

HasAttr(v, n) == \E i \in 1..Len(Attributes(v)) : AttrName(Attributes(v)[i]) = <<n>>

IsCookieLine(l) ==
    /\ contains(l, ":")
    /\ to_lowercase(LineName(l)) = <<"set-cookie">>
    /\ contains(FirstSegment(LineValue(l)), "=")

\* C5: renderer detection yields exact sets for the two declared cases: content
\* type application/json with a body that parses as JSON gives exactly
\* {Raw, Json}; content type text/html with a body starting with <html gives
\* exactly {Raw, Html, HtmlPreview}; Raw is present and nothing is listed twice.
C5_ExactRenderers ==
    result.kind = "Ok" =>
        LET r == result.response
            ct == to_lowercase(unwrap_or(r.detected_content_type, <<>>))
            listed == {r.available_renderers[i] : i \in 1..Len(r.available_renderers)}
        IN  /\ (ct # <<>> /\ ct[1] = "application/json" /\ json_is_ok(r.body)) =>
                /\ listed = {"Raw", "Json"}
                /\ Len(r.available_renderers) = 2
            /\ (ct # <<>> /\ ct[1] = "text/html" /\ starts_with(r.body, <<"<html">>)) =>
                /\ listed = {"Raw", "Html", "HtmlPreview"}
                /\ Len(r.available_renderers) = 3

C5_Witness ==
    /\ pc = "done"
    /\ result.kind = "Ok"
    /\ result.response.detected_content_type = Some(<<"application/json">>)
    /\ result.response.body = <<"{", JsonKey, "true", "}">>
    /\ result.response.available_renderers = <<"Raw", "Json">>

\* C6: the cookie list has exactly one entry per header line whose name is
\* set-cookie in any casing and whose first ';'-segment holds '=', in order of
\* appearance; a Set-Cookie line without '=' there gives no entry; HttpOnly and
\* Domain attributes show on the entry of their own line only.
C6_CookiePerSetCookieLine ==
    result.kind = "Ok" =>
        LET lines == SelectSeq(wire.headers, IsCookieLine)
            cookies == result.response.cookies
        IN  /\ Len(cookies) = Len(lines)
            /\ \A i \in 1..Len(lines) :
                LET v == LineValue(lines[i])
                    first == FirstSegment(v)
                IN  /\ cookies[i].name = trim(SubSeq(first, 1, find(first, "=") - 1))
                    /\ cookies[i].value =
                           trim(SubSeq(first, find(first, "=") + 1, Len(first)))
                    /\ cookies[i].http_only =
                           (IF HasAttr(v, "httponly") THEN Some(TRUE) ELSE None)
                    /\ cookies[i].domain.some =>
                           \E k \in 1..Len(Attributes(v)) :
                               /\ AttrName(Attributes(v)[k]) = <<"domain">>
                               /\ contains(Attributes(v)[k], "=")
                               /\ cookies[i].domain.v =
                                      trim(SubSeq(Attributes(v)[k],
                                                  find(Attributes(v)[k], "=") + 1,
                                                  Len(Attributes(v)[k])))
                    /\ ~HasAttr(v, "domain") => cookies[i].domain = None
                    /\ \A k \in 1..Len(Attributes(v)) :
                           (/\ AttrName(Attributes(v)[k]) = <<"domain">>
                            /\ contains(Attributes(v)[k], "=")
                            /\ \A m \in (k + 1)..Len(Attributes(v)) :
                                   AttrName(Attributes(v)[m]) # <<"domain">>)
                           => cookies[i].domain =
                                  Some(trim(SubSeq(Attributes(v)[k],
                                                   find(Attributes(v)[k], "=") + 1,
                                                   Len(Attributes(v)[k]))))

C6_Witness ==
    /\ pc = "done"
    /\ result.kind = "Ok"
    /\ wire.headers =
          <<<<"Set-Cookie", ":", " ", "session", "=", "abc", ";", " ", "Path", "=",
              "/", ";", " ", "HttpOnly">>,
            <<"SET-COOKIE", ":", "novalue">>,
            <<"set-cookie", ":", " ", "theme", "=", "dark", ";", " ", "Domain", "=",
              "example.com">>>>
    /\ Len(result.response.cookies) = 2
    /\ result.response.cookies[1].name = <<"session">>
    /\ result.response.cookies[1].http_only = Some(TRUE)
    /\ result.response.cookies[1].domain = None
    /\ result.response.cookies[2].http_only = None
    /\ result.response.cookies[2].domain = Some(<<"example.com">>)

\* C7: header canonicalization never overwrites: the value stored under a name
\* is the trimmed values of all lines with exactly that name, joined by ", " in
\* order of appearance; no line's value is lost and names that differ only in
\* case stay separate entries.
C7_HeadersMergedNotOverwritten ==
    result.kind = "Ok" =>
        LET headers == result.response.headers
            lines == SelectSeq(wire.headers, IsHeaderLine)
            named(n) == SelectSeq(lines, LAMBDA l : LineName(l) = n)
        IN  /\ DOMAIN headers = {LineName(lines[i]) : i \in 1..Len(lines)}
            /\ \A n \in DOMAIN headers :
                headers[n] =
                    join([i \in 1..Len(named(n)) |-> LineValue(named(n)[i])], <<", ">>)

C7_Witness ==
    /\ pc = "done"
    /\ result.kind = "Ok"
    /\ wire.headers = <<<<"X-A", ":", " ", "1">>, <<"x-a", ":", "3">>,
                        <<"X-A", ":", " ", " ", "2", " ">>>>
    /\ result.response.headers[<<"X-A">>] = <<"1", ", ", "2">>
    /\ result.response.headers[<<"x-a">>] = <<"3">>

TimersInOrder(t) ==
    /\ t.namelookup <= t.connect
    /\ t.connect <= t.appconnect
    /\ t.appconnect <= t.pretransfer
    /\ t.pretransfer <= t.starttransfer
    /\ t.starttransfer <= t.total

\* C8: every derived timing field is >= 0, also for timers out of order, and
\* for timers in order the derived phases sum to no more than total_ms.
C8_TimingNonNegativeAndBounded ==
    result.kind = "Ok" =>
        LET t == result.response.timing IN
        /\ t.dns_lookup_ms >= 0
        /\ t.tcp_handshake_ms >= 0
        /\ t.tls_handshake_ms >= 0
        /\ t.transfer_start_ms >= 0
        /\ t.ttfb_ms >= 0
        /\ t.content_download_ms >= 0
        /\ TimersInOrder(wire.times) =>
               t.dns_lookup_ms + t.tcp_handshake_ms + t.tls_handshake_ms
                   + t.transfer_start_ms + t.ttfb_ms + t.content_download_ms
                   <= t.total_ms

C8_Witness ==
    /\ pc = "done"
    /\ result.kind = "Ok"
    /\ wire.times.appconnect < wire.times.connect
    /\ wire.times.total < wire.times.starttransfer
    /\ result.response.timing.tls_handshake_ms = 0
    /\ result.response.timing.content_download_ms = 0
    /\ result.response.timing.tcp_handshake_ms > 0

(***************************************************************************)
(* Properties of the multipart boundary, checked under SpecBoundary        *)
(***************************************************************************)
\* C9: the multipart boundary token differs for every build: no two builds of
\* one process, whenever they read the clock, make the same token.
C9_BoundariesDiffer ==
    \A a, b \in Builds :
        (a # b /\ bpc[a] = "built" /\ bpc[b] = "built") => boundary[a] # boundary[b]

(***************************************************************************)
(* Properties of the Request Builder, checked under SpecBuild              *)
(***************************************************************************)
\* the entries of a built list as a set
Entries(list) == {list[i] : i \in 1..Len(list)}

\* the headers that follow the auth header in the built list: Cookie, Content-Type
TrailingHeaders(r) ==
    (IF r.cookies # <<>> THEN 1 ELSE 0)
    + (IF r.body.kind = "None" \/ (r.body.kind = "Raw" /\ ~r.body.content_type.some)
       THEN 0 ELSE 1)

\* the built list is the explicit headers, then `injected`, then the rest
AuthHeadersAre(r, list, injected) ==
    LET n == Cardinality(DOMAIN r.headers) IN
    /\ Len(list) = n + Len(injected) + TrailingHeaders(r)
    /\ Entries(SubSeq(list, 1, n)) = {h \o <<": ">> \o r.headers[h] : h \in DOMAIN r.headers}
    /\ SubSeq(list, n + 1, n + Len(injected)) = injected

\* the Query key of an ApiKey goes last in the URL query, and only there
ApiKeyQueryLast(r, url) ==
    LET n == Cardinality(DOMAIN r.query_params) IN
    /\ Entries(SubSeq(url.query, 1, n)) = {<<k, r.query_params[k]>> : k \in DOMAIN r.query_params}
    /\ IF r.auth.kind = "ApiKey" /\ r.auth.add_to = "Query"
       THEN url.query = SubSeq(url.query, 1, n) \o <<<<r.auth.key, r.auth.value>>>>
       ELSE Len(url.query) = n

\* C12 as stated: Basic adds one header "Authorization: Basic <base64>", Bearer
\* one header "Authorization: Bearer <token>", ApiKey in Header one header
\* key: value, ApiKey in Query and None no header; the one injected header
\* follows the explicit headers and the Query pair follows all query_params.
C12_AuthHeaderPerVariant ==
    easy.url.some =>
        /\ ApiKeyQueryLast(req, easy.url.v)
        /\ CASE req.auth.kind = "Basic" ->
                   LET n == Cardinality(DOMAIN req.headers) IN
                   /\ Len(easy.http_headers) = n + 1 + TrailingHeaders(req)
                   /\ starts_with(easy.http_headers[n + 1], <<"Authorization: Basic ">>)
                   /\ AuthHeadersAre(req, easy.http_headers,
                          <<easy.http_headers[n + 1]>>)
             [] req.auth.kind = "Bearer" ->
                   AuthHeadersAre(req, easy.http_headers,
                       <<<<"Authorization: Bearer ">> \o req.auth.token>>)
             [] req.auth.kind = "ApiKey" /\ req.auth.add_to = "Header" ->
                   AuthHeadersAre(req, easy.http_headers,
                       <<req.auth.key \o <<": ">> \o req.auth.value>>)
             [] OTHER -> AuthHeadersAre(req, easy.http_headers, <<>>)

\* C12, as the code has it: auth injection follows the variant, but Basic adds no header to the built list: its
\* username and password are set on the transport handle, and no other variant
\* sets them.
C12_AuthPerVariantBasicOnHandle ==
    easy.url.some =>
        /\ ApiKeyQueryLast(req, easy.url.v)
        /\ easy.userpwd = (IF req.auth.kind = "Basic"
                           THEN Some(<<req.auth.username, req.auth.password>>)
                           ELSE None)
        /\ CASE req.auth.kind = "Bearer" ->
                   AuthHeadersAre(req, easy.http_headers,
                       <<<<"Authorization: Bearer ">> \o req.auth.token>>)
             [] req.auth.kind = "ApiKey" /\ req.auth.add_to = "Header" ->
                   AuthHeadersAre(req, easy.http_headers,
                       <<req.auth.key \o <<": ">> \o req.auth.value>>)
             [] OTHER -> AuthHeadersAre(req, easy.http_headers, <<>>)

C12_Witness ==
    /\ pc = "perform"
    /\ req.auth.kind = "Basic"
    /\ Cardinality(DOMAIN req.headers) = 2
    /\ req.cookies # <<>>
    /\ easy.userpwd = Some(<<<<"u">>, <<"p">>>>)
    /\ Len(easy.http_headers) = 3

\* ---- renderer rules
Listed(r) == {r.available_renderers[i] : i \in 1..Len(r.available_renderers)}

IsJsonType(ct) == contains(ct, "application/json") \/ contains(ct, "+json")

IsHtmlType(ct) == contains(ct, "text/html") \/ contains(ct, "application/xhtml")

IsXmlType(ct) ==
    contains(ct, "application/xml") \/ contains(ct, "text/xml") \/ contains(ct, "+xml")

SniffsXml(body) == starts_with(trim_start(body), <<"<?xml">>)

SniffsHtml(body) ==
    starts_with(trim_start(body), <<"<!DOCTYPE html">>)
        \/ starts_with(trim_start(body), <<"<html">>)

\* C13: the JSON, HTML-by-content-type, XML-by-content-type and body-sniffing
\* rules are alternatives tried in that order, so available_renderers never
\* contains Json together with Html, HtmlPreview or Xml.
C13_JsonExcludesMarkup ==
    result.kind = "Ok" =>
        ~ /\ "Json" \in Listed(result.response)
          /\ Listed(result.response) \cap {"Html", "HtmlPreview", "Xml"} # {}

\* C13, as the code has it: the JSON rule stands apart from the markup rules. Json is
\* listed exactly when the content type is JSON or the body starts with { or [,
\* and the body parses. The markup rules (HTML by content type, XML by content
\* type, body sniffing) are alternatives among themselves, tried in that order
\* whether or not Json was listed: Html and HtmlPreview come together, never
\* with Xml.
C13_JsonApartFromMarkupChain ==
    result.kind = "Ok" =>
        LET r == result.response
            ct == to_lowercase(unwrap_or(r.detected_content_type, <<>>))
            listed == Listed(r)
        IN  /\ "Json" \in listed <=>
                /\ IsJsonType(ct) \/ starts_with(r.body, <<"{">>)
                        \/ starts_with(r.body, <<"[">>)
                /\ json_is_ok(r.body)
            /\ "HtmlPreview" \in listed <=> "Html" \in listed
            /\ ~("Html" \in listed /\ "Xml" \in listed)
            /\ "Html" \in listed <=>
                \/ IsHtmlType(ct)
                \/ ~IsXmlType(ct) /\ ~SniffsXml(r.body) /\ SniffsHtml(r.body)
            /\ "Xml" \in listed <=>
                /\ ~IsHtmlType(ct)
                /\ IsXmlType(ct) \/ SniffsXml(r.body)

C13_Witness ==
    /\ pc = "done"
    /\ result.kind = "Ok"
    /\ result.response.detected_content_type = Some(<<"text/html">>)
    /\ result.response.body = <<"{", "}">>
    /\ result.response.available_renderers = <<"Raw", "Json", "Html", "HtmlPreview">>

\* ---- content type of the response
ContentTypeLines(lines) ==
    SelectSeq(lines, LAMBDA l :
        IsHeaderLine(l) /\ to_lowercase(LineName(l)) = <<"content-type">>)

\* C14: detected_content_type is the value of the first header line named
\* content-type in any casing, that line's value only when the header occurs
\* several times, and none only when no line has that name; renderer detection
\* uses that same value.
C14_ContentTypeFirstLineAnyCasing ==
    result.kind = "Ok" =>
        LET r == result.response
            ctl == ContentTypeLines(wire.headers)
        IN  /\ r.detected_content_type =
                    IF ctl = <<>> THEN None ELSE Some(LineValue(ctl[1]))
            /\ r.available_renderers = detect_renderers(r.detected_content_type, r.body)

\* C15: building is deterministic: two builds of the same request with a
\* non-multipart body give the identical final URL, the identical ordered
\* header list and the identical body bytes, for every choice of the headers,
\* query_params and FormUrlEncoded fields maps, maps of two or more entries
\* included.
C15_BuildDeterministic ==
    (pc = "perform" /\ prior.some) =>
        /\ easy.url = prior.v.url
        /\ easy.http_headers = prior.v.http_headers
        /\ easy.post_data = prior.v.post_data

====
